---- MODULE Spec2Model ----
(***************************************************************************)
(* Model of the sensor-dashboard analytics code:                           *)
(*   src/app/dashboards/anomaly_detection.py  (point detectors, Mahalanobis *)
(*                                             tab, fleet summary tab)      *)
(*   src/app/dashboards/trend_analysis.py     (daily resample, Kendall tau) *)
(*                                                                         *)
(* Arithmetic is exact: every float of the program is a rational number    *)
(* n/d (a record), NaN is a record of its own, and +inf is 1/0.  A score   *)
(* that the program obtains with a square root is kept as its square       *)
(* (z^2, d^2); "score > threshold" is then "score^2 > threshold^2", both   *)
(* sides being non-negative.  IEEE rounding is not modelled.               *)
(***************************************************************************)
EXTENDS Integers, Sequences, FiniteSets, TLC

(***************************************************************************)
(* Bounds of the model                                                     *)
(***************************************************************************)
MaxLen == 5            \* longest series handed to a point detector
MaxWindow == 4         \* largest rolling window (in samples)

SeriesValues == {0, 7, 12}      \* the non-missing sample values
Thresholds10 == {10, 20, 30}    \* z-score thresholds, in tenths (1.0, 2.0, 3.0)
Multipliers10 == {10, 15}       \* IQR multipliers, in tenths (1.0, 1.5)

MaxPairLen == 4        \* most rows of the table shown by the correlation tab
PairValues == {0, 1}            \* the values of its pH and temperature columns

MaxSamples == 5        \* most rows of the table shown by the trend tab
MaxGap == 2            \* most days from one sample to the next (0, 1 or MaxGap)

MaxSensors == 2        \* most sensors of the fleet table
MaxRows == 4           \* most rows of the fleet table
MaxSpikes == 2         \* most columns of the fleet table that are not constant
WindowHours == {1, 2}           \* rolling window sizes chosen on the slider, in hours

(***************************************************************************)
(* Floats: exact rationals, NaN, +inf                                      *)
(***************************************************************************)
Abs(x) == IF x < 0 THEN -x ELSE x

RECURSIVE GCD(_, _)
GCD(a, b) == IF b = 0 THEN a ELSE GCD(b, a % b)

NaN == [nan |-> TRUE, n |-> 0, d |-> 1]

\* the float n/d, d >= 0; d = 0 is a division by zero: 0/0 is NaN, x/0 is inf
Rat(n, d) ==
    IF d = 0
    THEN IF n = 0 THEN NaN ELSE [nan |-> FALSE, n |-> (IF n > 0 THEN 1 ELSE -1), d |-> 0]
    ELSE LET g == GCD(Abs(n), Abs(d))
             s == IF d < 0 THEN -1 ELSE 1
         IN  [nan |-> FALSE, n |-> (s * n) \div g, d |-> (s * d) \div g]

Num(v) == [nan |-> FALSE, n |-> v, d |-> 1]

IsNaN(a) == a.nan

RSub(a, b) == IF a.nan \/ b.nan THEN NaN ELSE Rat(a.n * b.d - b.n * a.d, a.d * b.d)
RAdd(a, b) == IF a.nan \/ b.nan THEN NaN ELSE Rat(a.n * b.d + b.n * a.d, a.d * b.d)
RMul(a, b) == IF a.nan \/ b.nan THEN NaN ELSE Rat(a.n * b.n, a.d * b.d)
RDiv(a, b) == IF a.nan \/ b.nan THEN NaN ELSE Rat(a.n * b.d, a.d * b.n)
RSq(a) == RMul(a, a)

\* float comparisons: every comparison with NaN is False
RLt(a, b) == ~a.nan /\ ~b.nan /\ a.n * b.d < b.n * a.d
RGt(a, b) == RLt(b, a)
RLe(a, b) == ~a.nan /\ ~b.nan /\ a.n * b.d <= b.n * a.d

(***************************************************************************)
(* pandas Series reductions; all of them skip NaN (skipna=True)            *)
(***************************************************************************)
RECURSIVE NonMissing(_)
NonMissing(s) ==
    IF s = <<>> THEN <<>>
    ELSE IF Head(s).nan THEN NonMissing(Tail(s))
         ELSE <<Head(s)>> \o NonMissing(Tail(s))

RECURSIVE SumR(_)
SumR(s) == IF s = <<>> THEN Num(0) ELSE RAdd(Head(s), SumR(Tail(s)))

\* Series.mean(): NaN on an empty (all-missing) series
Mean(s) ==
    LET v == NonMissing(s)
    IN  IF Len(v) = 0 THEN NaN ELSE RDiv(SumR(v), Num(Len(v)))

\* Series.var(): sample variance, ddof = 1; NaN with fewer than 2 values
Var(s) ==
    LET v == NonMissing(s)
        m == Mean(s)
        dev2 == [i \in 1..Len(v) |-> RSq(RSub(v[i], m))]
    IN  IF Len(v) < 2 THEN NaN ELSE RDiv(SumR(dev2), Num(Len(v) - 1))

RECURSIVE Insert(_, _)
Insert(x, s) ==
    IF s = <<>> THEN <<x>>
    ELSE IF RLe(x, Head(s)) THEN <<x>> \o s
         ELSE <<Head(s)>> \o Insert(x, Tail(s))

RECURSIVE SortAsc(_)
SortAsc(s) == IF s = <<>> THEN <<>> ELSE Insert(Head(s), SortAsc(Tail(s)))

\* Series.quantile(q4 / 4), linear interpolation between order statistics
Quantile(s, q4) ==
    LET v == SortAsc(NonMissing(s))
        n == Len(v)
        lo == ((n - 1) * q4) \div 4
        fr == ((n - 1) * q4) % 4
    IN  IF n = 0 THEN NaN
        ELSE IF fr = 0 THEN v[lo + 1]
             ELSE RAdd(v[lo + 1], RMul(RSub(v[lo + 2], v[lo + 1]), Rat(fr, 4)))

(***************************************************************************)
(* DataFrames: a function from column names to equally long sequences      *)
(***************************************************************************)
NRows(data) == Len(data["timestamp"])

\* data[name] = column : adds the column or replaces it, in place
SetColumn(data, name, column) ==
    [c \in (DOMAIN data) \cup {name} |-> IF c = name THEN column ELSE data[c]]

\* a column holding the same scalar in every row
Broadcast(data, x) == [i \in 1..NRows(data) |-> x]

\* "not (score <= threshold)": an undefined score counts as exceeding
ScoreExceeds_nan(z2, t10) == ~RLe(z2, Rat(t10 * t10, 100))

\* the comparison is turned round: score < threshold
ScoreExceeds_below(z2, t10) == RLt(z2, Rat(t10 * t10, 100))

\* z^2 > (t10/10)^2
ScoreExceeds(z2, t10) == RGt(z2, Rat(t10 * t10, 100))

(***************************************************************************)
(* detect_anomalies_zscore                                                 *)
(***************************************************************************)
\* the deviation from the mean is not divided by the standard deviation
detect_anomalies_zscore_unscaled(data, column, threshold) ==
    LET mean == Mean(data[column])
        zscore == [i \in 1..NRows(data) |-> RSq(RSub(data[column][i], mean))]
        anomaly == [i \in 1..NRows(data) |-> ScoreExceeds(zscore[i], threshold)]
    IN  SetColumn(SetColumn(data, "zscore", zscore), "anomaly", anomaly)

detect_anomalies_zscore(data, column, threshold) ==
    LET mean == Mean(data[column])
        var == Var(data[column])
        zscore == [i \in 1..NRows(data) |->
                      RDiv(RSq(RSub(data[column][i], mean)), var)]
        anomaly == [i \in 1..NRows(data) |-> ScoreExceeds(zscore[i], threshold)]
    IN  SetColumn(SetColumn(data, "zscore", zscore), "anomaly", anomaly)

(***************************************************************************)
(* detect_anomalies_iqr                                                    *)
(***************************************************************************)
\* the IQR is divided by the multiplier instead of multiplied
detect_anomalies_iqr_divided(data, column, multiplier) ==
    LET q1 == Quantile(data[column], 1)
        q3 == Quantile(data[column], 3)
        iqr == RSub(q3, q1)
        lower_bound == RSub(q1, RDiv(iqr, Rat(multiplier, 10)))
        upper_bound == RAdd(q3, RDiv(iqr, Rat(multiplier, 10)))
        anomaly == [i \in 1..NRows(data) |->
                       RLt(data[column][i], lower_bound)
                       \/ RGt(data[column][i], upper_bound)]
    IN  SetColumn(SetColumn(SetColumn(data, "anomaly", anomaly),
                            "lower_bound", Broadcast(data, lower_bound)),
                  "upper_bound", Broadcast(data, upper_bound))

\* a value equal to a bound is flagged as well
detect_anomalies_iqr_inclusive(data, column, multiplier) ==
    LET q1 == Quantile(data[column], 1)
        q3 == Quantile(data[column], 3)
        iqr == RSub(q3, q1)
        lower_bound == RSub(q1, RMul(Rat(multiplier, 10), iqr))
        upper_bound == RAdd(q3, RMul(Rat(multiplier, 10), iqr))
        anomaly == [i \in 1..NRows(data) |->
                       RLe(data[column][i], lower_bound)
                       \/ RLe(upper_bound, data[column][i])]
    IN  SetColumn(SetColumn(SetColumn(data, "anomaly", anomaly),
                            "lower_bound", Broadcast(data, lower_bound)),
                  "upper_bound", Broadcast(data, upper_bound))

detect_anomalies_iqr(data, column, multiplier) ==
    LET q1 == Quantile(data[column], 1)
        q3 == Quantile(data[column], 3)
        iqr == RSub(q3, q1)
        lower_bound == RSub(q1, RMul(Rat(multiplier, 10), iqr))
        upper_bound == RAdd(q3, RMul(Rat(multiplier, 10), iqr))
        anomaly == [i \in 1..NRows(data) |->
                       RLt(data[column][i], lower_bound)
                       \/ RGt(data[column][i], upper_bound)]
    IN  SetColumn(SetColumn(SetColumn(data, "anomaly", anomaly),
                            "lower_bound", Broadcast(data, lower_bound)),
                  "upper_bound", Broadcast(data, upper_bound))

(***************************************************************************)
(* detect_anomalies_rolling                                                *)
(***************************************************************************)
\* rolling(window, center=True): the rows of the window of row i (1-based),
\* clipped to the series; offset = (window - 1) // 2
\* the offset of a window centred by window // 2
WindowOffset_half(window) == window \div 2

\* the window ends at the row itself (center = False)
WindowOffset_trailing(window) == 0

WindowOffset(window) == (window - 1) \div 2

WindowFirst(i, window) == i + WindowOffset(window) - window + 1

WindowLast(i, window) == i + WindowOffset(window)

WindowRows(s, i, window) ==
    LET a == IF WindowFirst(i, window) < 1 THEN 1 ELSE WindowFirst(i, window)
        b == IF WindowLast(i, window) > Len(s) THEN Len(s) ELSE WindowLast(i, window)
    IN  [k \in 1..(IF b >= a THEN b - a + 1 ELSE 0) |-> s[a + k - 1]]

\* min_periods defaults to window: fewer valid observations give NaN
RollingMean(s, i, window) ==
    LET w == WindowRows(s, i, window)
    IN  IF Len(NonMissing(w)) < window THEN NaN ELSE Mean(w)

RollingVar(s, i, window) ==
    LET w == WindowRows(s, i, window)
    IN  IF Len(NonMissing(w)) < window THEN NaN ELSE Var(w)

detect_anomalies_rolling(data, column, window, threshold) ==
    LET n == NRows(data)
        rolling_mean == [i \in 1..n |-> RollingMean(data[column], i, window)]
        rolling_var == [i \in 1..n |-> RollingVar(data[column], i, window)]
        zscore == [i \in 1..n |->
                      RDiv(RSq(RSub(data[column][i], rolling_mean[i])), rolling_var[i])]
        anomaly == [i \in 1..n |-> ScoreExceeds(zscore[i], threshold)]
    IN  SetColumn(SetColumn(SetColumn(SetColumn(data,
            "rolling_mean", rolling_mean), "rolling_std", rolling_var),  \* std^2
            "zscore", zscore), "anomaly", anomaly)

(***************************************************************************)
(* State                                                                   *)
(***************************************************************************)
VARIABLES
    heap,        \* the DataFrame objects: heap[id] is the frame of object id
    data,        \* id of the object the caller passes as `data`
    before,      \* the frame of that object when the call was made
    ret,         \* id of the object the call returned (0: none)
    call,        \* the detector call: method and parameters
    outcome,     \* "none" (not called), "returned", or the exception raised
    report,      \* the scalars a dashboard tab computes (corr, tau, ...)
    pc           \* "ready" or "done"

vars == <<heap, data, before, ret, call, outcome, report, pc>>

(***************************************************************************)
(* The point detectors, called directly on a caller's DataFrame            *)
(***************************************************************************)
RECURSIVE SeqsUpTo(_, _)
SeqsUpTo(S, n) ==
    IF n = 0 THEN {<<>>}
    ELSE LET shorter == SeqsUpTo(S, n - 1)
         IN  shorter \cup {Append(s, x) : s \in {t \in shorter : Len(t) = n - 1}, x \in S}

Cells == {Num(v) : v \in SeriesValues} \cup {NaN}

\* a frame with a timestamp column and one value column
MakeFrame(series) ==
    [c \in {"timestamp", "value"} |->
        IF c = "timestamp" THEN [i \in 1..Len(series) |-> Num(i)] ELSE series]

NoCall == [method |-> "none", window |-> 0, threshold |-> 0, multiplier |-> 0,
           sensor_id |-> 0, x_param |-> "", y_param |-> "", detection_method |-> ""]

NoReport == [kind |-> "none"]

DetectInit ==
    /\ \E series \in SeqsUpTo(Cells, MaxLen) : heap = <<MakeFrame(series)>>
    /\ data = 1
    /\ before = heap[1]
    /\ ret = 0
    /\ call = NoCall
    /\ outcome = "none"
    /\ report = NoReport
    /\ pc = "ready"

\* the three detectors assign columns of `data` in place and return `data`
CallZScore(threshold) ==
    /\ pc = "ready"
    /\ before' = heap[data]
    /\ heap' = [heap EXCEPT ![data] = detect_anomalies_zscore(heap[data], "value", threshold)]
    /\ ret' = data
    /\ call' = [NoCall EXCEPT !.method = "zscore", !.threshold = threshold]
    /\ outcome' = "returned"
    /\ pc' = "done"
    /\ UNCHANGED <<data, report>>

CallIQR(multiplier) ==
    /\ pc = "ready"
    /\ before' = heap[data]
    /\ heap' = [heap EXCEPT ![data] = detect_anomalies_iqr(heap[data], "value", multiplier)]
    /\ ret' = data
    /\ call' = [NoCall EXCEPT !.method = "iqr", !.multiplier = multiplier]
    /\ outcome' = "returned"
    /\ pc' = "done"
    /\ UNCHANGED <<data, report>>

CallRolling(window, threshold) ==
    /\ pc = "ready"
    /\ before' = heap[data]
    /\ heap' = [heap EXCEPT ![data] =
                   detect_anomalies_rolling(heap[data], "value", window, threshold)]
    /\ ret' = data
    /\ call' = [NoCall EXCEPT !.method = "rolling", !.window = window,
                              !.threshold = threshold]
    /\ outcome' = "returned"
    /\ pc' = "done"
    /\ UNCHANGED <<data, report>>

DetectNext ==
    \/ \E t \in Thresholds10 : CallZScore(t)
    \/ \E m \in Multipliers10 : CallIQR(m)
    \/ \E w \in 1..MaxWindow, t \in Thresholds10 : CallRolling(w, t)

SpecDetect == DetectInit /\ [][DetectNext]_vars

\* what the caller sees after the call
Result == heap[ret]

Series == before["value"]

Flagged == {i \in 1..Len(Series) : Result["anomaly"][i]}

Returned == pc = "done" /\ outcome = "returned"

\* the series whose values are the integers vs, none missing
IsSeries(vs) == Series = [i \in 1..Len(vs) |-> Num(vs[i])]

(***************************************************************************)
(* Properties of the point detectors (SpecDetect)                          *)
(***************************************************************************)
Scenario == Returned /\ call.method = "zscore" /\ call.threshold = 20
            /\ IsSeries(<<7, 7, 7, 7, 12>>)

\* C1 (as stated): ZScore with threshold 2.0 on [7, 7, 7, 7, 12] flags exactly
\* the last point (12.0) and none of the four 7.0 points.
C1_FlagsLast == Scenario => Flagged = {5}

\* C1 (amended): ZScore with threshold 2.0 on [7, 7, 7, 7, 12] flags no point:
\* the mean is 8, the sample variance 5, the squared scores are 1/5 for the
\* four 7.0 points and 16/5 (z = 1.789) for 12.0, all below 2.0^2.
C1_FlagsNone ==
    Scenario =>
        /\ Flagged = {}
        /\ \A i \in 1..4 : Result["zscore"][i] = Rat(1, 5)
        /\ Result["zscore"][5] = Rat(16, 5)

C1_Witness == Scenario /\ Result["zscore"][5] = Rat(16, 5)

RollingReturned == Returned /\ call.method = "rolling"

\* C2 (as stated): RollingZScore never flags any of the first floor(window/2)
\* points nor any of the last floor(window/2) points of the series.
C2_EdgesBothHalf ==
    RollingReturned =>
        \A i \in Flagged : /\ i > call.window \div 2
                           /\ i <= Len(Series) - call.window \div 2

\* C2 (amended): RollingZScore never flags any of the first floor(window/2)
\* points nor any of the last floor((window-1)/2) points of the series.
C2_EdgesCentered ==
    RollingReturned =>
        \A i \in Flagged : /\ i > call.window \div 2
                           /\ i <= Len(Series) - (call.window - 1) \div 2

\* an even window flags the point that is floor(window/2) from the end
C2_Witness ==
    /\ RollingReturned
    /\ call.window % 2 = 0
    /\ (Len(Series) - call.window \div 2 + 1) \in Flagged

NonMissingCount == Len(NonMissing(Series))

TooFewValues ==
    \/ call.method \in {"zscore", "iqr"} /\ NonMissingCount < 2
    \/ call.method = "rolling" /\ NonMissingCount < call.window

\* C3: detect fails with InsufficientData, instead of returning a result, when
\* the series has fewer than 2 non-missing values (ZScore, IQR) or fewer than
\* `window` non-missing values (RollingZScore).
C3_InsufficientData ==
    (pc = "done" /\ TooFewValues) => outcome = "InsufficientData"

\* C4: a detection call leaves the series object of the caller as it was (no
\* column added, removed or changed) and returns a freshly created object.
C4_Pure ==
    pc = "done" => (heap[data] = before /\ ret # data)

(***************************************************************************)
(* Correlation Anomalies tab (Mahalanobis distance of two parameters)      *)
(***************************************************************************)
parameters == <<"ph", "temp", "conductivity", "dissolved_oxygen", "turbidity">>

Parameters == {parameters[i] : i \in 1..Len(parameters)}

\* f'sensor_{sensor_id}_{param}'
SensorColumns ==
    <<[ph |-> "sensor_1_ph", temp |-> "sensor_1_temp",
       conductivity |-> "sensor_1_conductivity",
       dissolved_oxygen |-> "sensor_1_dissolved_oxygen",
       turbidity |-> "sensor_1_turbidity"],
      [ph |-> "sensor_2_ph", temp |-> "sensor_2_temp",
       conductivity |-> "sensor_2_conductivity",
       dissolved_oxygen |-> "sensor_2_dissolved_oxygen",
       turbidity |-> "sensor_2_turbidity"],
      [ph |-> "sensor_3_ph", temp |-> "sensor_3_temp",
       conductivity |-> "sensor_3_conductivity",
       dissolved_oxygen |-> "sensor_3_dissolved_oxygen",
       turbidity |-> "sensor_3_turbidity"]>>

ColName(sensor_id, param) == SensorColumns[sensor_id][param]

\* sample covariance of two complete columns (DataFrame.cov, ddof = 1)
Cov(x, y) ==
    LET mx == Mean(x)
        my == Mean(y)
        prod == [i \in 1..Len(x) |-> RMul(RSub(x[i], mx), RSub(y[i], my))]
    IN  IF Len(x) < 2 THEN NaN ELSE RDiv(SumR(prod), Num(Len(x) - 1))

\* a number known by its sign and its square (Pearson r, a standardized value)
Signed(sign, sq) == [nan |-> FALSE, sign |-> sign, sq |-> sq]

SignedNaN == [nan |-> TRUE, sign |-> 0, sq |-> NaN]

Sign(a) == IF a.n > 0 THEN 1 ELSE IF a.n < 0 THEN -1 ELSE 0

\* DataFrame.corr(): Pearson r = cov / (std_x * std_y); 0/0 is NaN
Corr(x, y) ==
    LET c == Cov(x, y)
        r2 == RDiv(RSq(c), RMul(Var(x), Var(y)))
    IN  IF r2.nan THEN SignedNaN ELSE Signed(Sign(c), r2)

\* (X - X.mean()) / X.std(), one column: the signed square of each entry
Standardize(x) ==
    [i \in 1..Len(x) |->
        LET dev == RSub(x[i], Mean(x))
            sq == RDiv(RSq(dev), Var(x))
        IN  IF sq.nan THEN SignedNaN ELSE Signed(Sign(dev), sq)]

\* X_std.cov(): a standardized column has mean 0 and variance 1, and the
\* covariance of two standardized columns is the Pearson r of the raw ones;
\* a column that is all NaN makes its row and column of the matrix NaN
CovStd(x, y) ==
    LET r == Corr(x, y)
    IN  [xx |-> IF r.nan THEN NaN ELSE Num(1),
         xy |-> r,
         yy |-> IF r.nan THEN NaN ELSE Num(1)]

HasNaN(m) == m.xx.nan \/ m.xy.nan \/ m.yy.nan

\* det = xx * yy - xy^2
Det(m) == RSub(RMul(m.xx, m.yy), m.xy.sq)

\* np.linalg.inv raises LinAlgError on a singular matrix; a matrix with NaN
\* entries is not detected as singular and its inverse is all NaN
InvRaises(m) == ~HasNaN(m) /\ Det(m) = Num(0)

\* chi2.ppf(0.95, 2) = 5.99146..., to four decimals
ChiSquare95 == Rat(59915, 10000)

\* the distance taken on the centred columns, not divided by their std
Mahalanobis2_unscaled(x, y, i) ==
    LET m == CovStd(x, y)
        dx == RSub(x[i], Mean(x))
        dy == RSub(y[i], Mean(y))
        cross == RDiv(RMul(Cov(x, y), RMul(dx, dy)), RMul(Var(x), Var(y)))
    IN  IF HasNaN(m) \/ Standardize(x)[i].nan \/ Standardize(y)[i].nan THEN NaN
        ELSE RDiv(RAdd(RSub(RMul(m.yy, RSq(dx)), RMul(Num(2), cross)),
                       RMul(m.xx, RSq(dy))),
                  Det(m))

\* x @ inv(cov) @ x for the row (x', y'), with
\* inv = [[yy, -xy], [-xy, xx]] / det  and  xy * x' * y' = cov*dx*dy/(vx*vy)
Mahalanobis2(x, y, i) ==
    LET m == CovStd(x, y)
        xs == Standardize(x)[i]
        ys == Standardize(y)[i]
        cross == RDiv(RMul(Cov(x, y), RMul(RSub(x[i], Mean(x)), RSub(y[i], Mean(y)))),
                      RMul(Var(x), Var(y)))
    IN  IF HasNaN(m) \/ xs.nan \/ ys.nan THEN NaN
        ELSE RDiv(RAdd(RSub(RMul(m.yy, xs.sq), RMul(Num(2), cross)),
                       RMul(m.xx, ys.sq)),
                  Det(m))

PairSeries == {s \in SeqsUpTo({Num(v) : v \in PairValues}, MaxPairLen) : Len(s) >= 1}

\* the table of one sensor: pH and temperature vary, the other three
\* parameters read 0 throughout
MakeTable(ph, temp) ==
    LET zeros == [i \in 1..Len(ph) |-> Num(0)]
    IN  [c \in {"timestamp"} \cup {ColName(1, q) : q \in Parameters} |->
            IF c = "timestamp" THEN [i \in 1..Len(ph) |-> Num(i)]
            ELSE IF c = ColName(1, "ph") THEN ph
            ELSE IF c = ColName(1, "temp") THEN temp
            ELSE zeros]

\* heap[1] is combined_data
CorrInit ==
    /\ \E ph \in PairSeries, temp \in PairSeries :
          /\ Len(ph) = Len(temp)
          /\ heap = <<MakeTable(ph, temp)>>
    /\ data = 1
    /\ before = heap[1]
    /\ ret = 0
    /\ call = NoCall
    /\ outcome = "none"
    /\ report = NoReport
    /\ pc = "ready"

\* sensor_data = combined_data[['timestamp']].copy(), then one column per
\* parameter of the sensor that combined_data has
SensorData(combined_data, sensor_id) ==
    [c \in {"timestamp"} \cup
           {q \in Parameters : ColName(sensor_id, q) \in DOMAIN combined_data} |->
        IF c = "timestamp" THEN combined_data["timestamp"]
        ELSE combined_data[ColName(sensor_id, c)]]

\* abs(corr) > 0.7, abs(corr) > 0.3; a comparison with NaN is False
CorrelationStrength(corr) ==
    IF RGt(corr.sq, Rat(49, 100)) THEN "strong"
    ELSE IF RGt(corr.sq, Rat(9, 100)) THEN "moderate"
    ELSE "weak"

\* "positive" if corr > 0 else "negative"
CorrelationDirection(corr) ==
    IF ~corr.nan /\ corr.sign > 0 THEN "positive" ELSE "negative"

\* the sentence under the chart, shown when the chart has been drawn
CorrelationReport(kind, corr, shown) ==
    IF shown
    THEN [kind |-> kind, corr |-> corr, strength |-> CorrelationStrength(corr),
          direction |-> CorrelationDirection(corr)]
    ELSE [kind |-> kind, corr |-> corr]

CorrelationTab(sensor_id, x_param, y_param) ==
    LET sensor_data == SensorData(heap[data], sensor_id)
        x == sensor_data[x_param]
        y == sensor_data[y_param]
        cov_matrix == CovStd(x, y)
        mahalanobis == [i \in 1..NRows(sensor_data) |-> Mahalanobis2(x, y, i)]
        anomaly == [i \in 1..NRows(sensor_data) |-> RGt(mahalanobis[i], ChiSquare95)]
    IN  /\ pc = "ready"
        /\ call' = [NoCall EXCEPT !.method = "correlation", !.sensor_id = sensor_id,
                                  !.x_param = x_param, !.y_param = y_param]
        /\ report' = CorrelationReport("correlation", Corr(x, y), ~InvRaises(cov_matrix))
        /\ IF InvRaises(cov_matrix)
           THEN /\ outcome' = "LinAlgError"
                /\ heap' = Append(heap, sensor_data)
           ELSE /\ outcome' = "returned"
                /\ heap' = Append(heap,
                       SetColumn(SetColumn(sensor_data, "anomaly", anomaly),
                                 "mahalanobis", mahalanobis))
        /\ ret' = Len(heap) + 1
        /\ before' = heap[data]
        /\ pc' = "done"
        /\ UNCHANGED data

CorrNext ==
    \E x_param \in Parameters, y_param \in Parameters : CorrelationTab(1, x_param, y_param)

SpecCorr == CorrInit /\ [][CorrNext]_vars

(***************************************************************************)
(* Properties of the correlation tab (SpecCorr)                            *)
(***************************************************************************)
CorrDone == pc = "done" /\ call.method = "correlation"

\* the two series the tab was run on
XSeries == before[ColName(call.sensor_id, call.x_param)]

YSeries == before[ColName(call.sensor_id, call.y_param)]

\* y = a*x + b at every row for some a # 0: q*y = p*x + c with p # 0, q > 0
LinearlyDependent(x, y) ==
    \E p \in {-2, -1, 1, 2}, q \in {1, 2}, c \in -4..4 :
        \A i \in 1..Len(x) : q * y[i].n = p * x[i].n + c

IsConstant(x) == \A i \in 1..Len(x) : x[i] = x[1]

ProducedFlags == "anomaly" \in DOMAIN heap[ret] \/ "mahalanobis" \in DOMAIN heap[ret]

\* C5: on two perfectly linearly dependent series (y = a*x + b, a # 0, the
\* same parameter on both axes included) correlation-anomaly detection fails
\* with the singular-covariance error, surfaced to the caller, and returns no
\* distances or flags.
C5_SingularSurfaced ==
    (CorrDone /\ LinearlyDependent(XSeries, YSeries)) =>
        (outcome = "LinAlgError" /\ ~ProducedFlags)

\* C6: correlation-anomaly detection fails whenever either series is constant
\* (zero standard deviation) or the pair has fewer than 3 points, and then
\* produces no standardized values, distances or flags.
C6_DegenerateFails ==
    (CorrDone /\ (IsConstant(XSeries) \/ IsConstant(YSeries) \/ Len(XSeries) < 3)) =>
        (outcome # "returned" /\ ~ProducedFlags)

(***************************************************************************)
(* Trend Detection tab: daily resample, Kendall tau, regression line       *)
(***************************************************************************)
\* the table of the trend tab: timestamps are calendar days (the time of day
\* is left out), in chronological order; each sample is `gap` days after the
\* previous one and differs from it by `delta`
Steps == {<<gap, delta>> : gap \in {0, 1, MaxGap}, delta \in {-1, 0, 1}}

RECURSIVE SumSteps(_, _, _)
SumSteps(steps, k, f) ==
    IF k = 0 THEN 0 ELSE steps[k][f] + SumSteps(steps, k - 1, f)

TrendTable(steps) ==
    [c \in {"timestamp", ColName(1, "ph")} |->
        IF c = "timestamp"
        THEN [i \in 1..(Len(steps) + 1) |-> Num(SumSteps(steps, i - 1, 1))]
        ELSE [i \in 1..(Len(steps) + 1) |-> Num(SumSteps(steps, i - 1, 2))]]

TrendInit ==
    /\ \E steps \in SeqsUpTo(Steps, MaxSamples - 1) : heap = <<TrendTable(steps)>>
    /\ data = 1
    /\ before = heap[1]
    /\ ret = 0
    /\ call = NoCall
    /\ outcome = "none"
    /\ report = NoReport
    /\ pc = "ready"

\* the values of `column` in the rows whose timestamp is `day`
OnDay(frame, column, day) ==
    LET F[i \in 0..NRows(frame)] ==
            IF i = 0 THEN <<>>
            ELSE IF frame["timestamp"][i] = Num(day)
                 THEN Append(F[i - 1], frame[column][i])
                 ELSE F[i - 1]
    IN  F[NRows(frame)]

\* trend_data.set_index('timestamp').resample('D').mean().reset_index():
\* one row for every calendar day from the first sample to the last; the
\* mean of a day without samples is NaN
Resample(frame, column) ==
    LET first == frame["timestamp"][1].n
        last == frame["timestamp"][NRows(frame)].n
    IN  [c \in {"timestamp", column} |->
            [k \in 1..(last - first + 1) |->
                IF c = "timestamp" THEN Num(first + k - 1)
                ELSE Mean(OnDay(frame, column, first + k - 1))]]

\* pairs i < j of rows
Pairs(n) == {ij \in (1..n) \X (1..n) : ij[1] < ij[2]}

Concordant(y) == Cardinality({ij \in Pairs(Len(y)) : RLt(y[ij[1]], y[ij[2]])})

Discordant(y) == Cardinality({ij \in Pairs(Len(y)) : RGt(y[ij[1]], y[ij[2]])})

\* number of pairs tied in y
YTie(y) == Cardinality({ij \in Pairs(Len(y)) : y[ij[1]] = y[ij[2]]})

\* sum over the groups of t equal values of t (t - 1) (2 t + 5)
TieTerm(y) ==
    LET vals == {y[i] : i \in 1..Len(y)}
        t(v) == Cardinality({i \in 1..Len(y) : y[i] = v})
        F[S \in SUBSET vals] ==
            IF S = {} THEN 0
            ELSE LET v == CHOOSE w \in S : TRUE
                 IN  t(v) * (t(v) - 1) * (2 * t(v) + 5) + F[S \ {v}]
    IN  F[vals]

RECURSIVE Factorial(_)
Factorial(n) == IF n <= 1 THEN 1 ELSE n * Factorial(n - 1)

\* number of permutations of n elements with exactly k inversions
RECURSIVE Inversions(_, _)
Inversions(n, k) ==
    IF k < 0 THEN 0
    ELSE IF n <= 1 THEN (IF k = 0 THEN 1 ELSE 0)
    ELSE LET F[j \in 0..(n - 1)] ==
                 Inversions(n - 1, k - j) + (IF j = 0 THEN 0 ELSE F[j - 1])
         IN  F[n - 1]

RECURSIVE AtMostInversions(_, _)
AtMostInversions(n, c) ==
    IF c < 0 THEN 0 ELSE Inversions(n, c) + AtMostInversions(n, c - 1)

\* _kendall_p_exact, two-sided: 2 P(at most c discordant pairs), clipped to 1
\* (its closed forms for n <= 2, c = 0, c = 1 and 4c = n(n-1) are this value)
KendallPExact(n, c) ==
    LET pr == Rat(2 * AtMostInversions(n, c), Factorial(n))
    IN  IF RGt(pr, Num(1)) THEN Num(1) ELSE pr

\* a p-value: the exact probability, or, for the normal approximation,
\* the square of the statistic z with p = 2 * norm.sf(|z|)
PExact(pr) == [nan |-> FALSE, exact |-> TRUE, p |-> pr, z2 |-> NaN]

PAsymptotic(z2) == [nan |-> FALSE, exact |-> FALSE, p |-> NaN, z2 |-> z2]

PNaN == [nan |-> TRUE, exact |-> FALSE, p |-> NaN, z2 |-> NaN]

\* 2 * norm.sf(|z|) < 0.05  iff  |z| > 1.959964  iff  z^2 > 3.84146
Z95Squared == Rat(38415, 10000)

\* p_value < alpha, alpha = 0.05
BelowAlpha(p_value) ==
    /\ ~p_value.nan
    /\ IF p_value.exact THEN RLt(p_value.p, Rat(5, 100))
       ELSE RGt(p_value.z2, Z95Squared)

\* stats.kendalltau(x, y) with x = 0..n-1 (no ties in x), tau-b, method 'auto'
KendallTau(y) ==
    LET size == Len(y)
        tot == (size * (size - 1)) \div 2
        ytie == YTie(y)
        dis == Discordant(y)
        con_minus_dis == tot - ytie - 2 * dis
        var == Rat(size * (size - 1) * (2 * size + 5) - TieTerm(y), 18)
    IN  IF \E i \in 1..size : y[i].nan          \* nan_policy = 'propagate'
        THEN [tau |-> SignedNaN, p_value |-> PNaN]
        ELSE IF ytie = tot                      \* a single row, or all values equal
        THEN [tau |-> SignedNaN, p_value |-> PNaN]
        ELSE [tau |-> Signed(IF con_minus_dis > 0 THEN 1
                             ELSE IF con_minus_dis < 0 THEN -1 ELSE 0,
                             Rat(con_minus_dis * con_minus_dis, tot * (tot - ytie))),
              p_value |-> IF ytie = 0
                          THEN PExact(KendallPExact(size,
                                   IF dis < tot - dis THEN dis ELSE tot - dis))
                          ELSE PAsymptotic(RDiv(Num(con_minus_dis * con_minus_dis), var))]

\* the two directions are exchanged
TrendDirection_swapped(tau, p_value) ==
    IF BelowAlpha(p_value)
    THEN IF ~tau.nan /\ tau.sign > 0 THEN "decreasing" ELSE "increasing"
    ELSE "no significant"

\* the p-value is not consulted
TrendDirection_unconditional(tau, p_value) ==
    IF ~tau.nan /\ tau.sign > 0 THEN "increasing" ELSE "decreasing"

\* the verdict of the tab
TrendDirection(tau, p_value) ==
    IF BelowAlpha(p_value)
    THEN IF ~tau.nan /\ tau.sign > 0 THEN "increasing" ELSE "decreasing"
    ELSE "no significant"

\* np.polyfit(x, y, 1)[0] with x = 0..n-1: the least-squares slope
Slope(y) ==
    LET x == [i \in 1..Len(y) |-> Num(i - 1)]
    IN  RDiv(Cov(x, y), Var(x))

\* with a NaN in y, or a single row, the least-squares solver is handed NaN:
\* depending on the LAPACK build it fails to converge (LinAlgError) or
\* returns NaN coefficients
PolyfitDegenerate(y) == Len(y) < 2 \/ \E i \in 1..Len(y) : y[i].nan

TrendTab(sensor_id, param_code) ==
    LET col_name == ColName(sensor_id, param_code)
    IN  /\ pc = "ready"
        /\ IF col_name \in DOMAIN heap[data]
           THEN LET daily_data == Resample(heap[data], col_name)
                    y == daily_data[col_name]
                    result == KendallTau(y)
                IN  /\ heap' = Append(heap, daily_data)
                    /\ ret' = Len(heap) + 1
                    /\ before' = heap[data]
                    /\ call' = [NoCall EXCEPT !.method = "trend",
                                   !.sensor_id = sensor_id, !.x_param = param_code]
                    /\ report' = [kind |-> "trend",
                                  tau |-> result.tau,
                                  p_value |-> result.p_value,
                                  trend_direction |-> TrendDirection(result.tau, result.p_value),
                                  slope |-> IF PolyfitDegenerate(y) THEN NaN ELSE Slope(y)]
                    /\ \/ outcome' = "returned"
                       \/ PolyfitDegenerate(y) /\ outcome' = "LinAlgError"
                    /\ pc' = "done"
           ELSE UNCHANGED <<heap, ret, before, call, report, outcome, pc>>
        /\ UNCHANGED data

TrendNext ==
    \E param_code \in Parameters : TrendTab(1, param_code)

SpecTrend == TrendInit /\ [][TrendNext]_vars

(***************************************************************************)
(* Properties of the trend tab (SpecTrend)                                 *)
(***************************************************************************)
TrendDone == pc = "done" /\ call.method = "trend"

\* the daily means the tab computed
Daily == heap[ret][ColName(call.sensor_id, call.x_param)]

StrictlyIncreasing(y) == \A i \in 1..(Len(y) - 1) : RLt(y[i], y[i + 1])

TauIsOne == report.tau = Signed(1, Num(1))

\* C7 (as stated): for every series whose daily means are strictly
\* increasing (over at least two days, so that there is an order to speak
\* of) the tab reports tau = 1.0, p_value < 0.05 and an increasing trend.
C7_Monotone ==
    (TrendDone /\ Len(Daily) >= 2 /\ StrictlyIncreasing(Daily)) =>
        /\ TauIsOne
        /\ BelowAlpha(report.p_value)
        /\ report.trend_direction = "increasing"

\* C7 (amended): for every series of at least 5 daily rows whose daily means
\* are strictly increasing the tab reports tau = 1, p_value = 2/n! < 0.05 and
\* an increasing trend.
C7_MonotoneFiveDays ==
    (TrendDone /\ StrictlyIncreasing(Daily) /\ Len(Daily) >= 5) =>
        /\ TauIsOne
        /\ report.p_value = PExact(Rat(2, Factorial(Len(Daily))))
        /\ BelowAlpha(report.p_value)
        /\ report.trend_direction = "increasing"

C7_Witness ==
    TrendDone /\ StrictlyIncreasing(Daily) /\ Len(Daily) >= 5 /\ TauIsOne

\* C8: the daily series has one row per calendar day that has at least one
\* sample, holding the mean of the samples of that day; a day without
\* samples has no row (and no placeholder value).
C8_NoGapRows ==
    TrendDone =>
        \A k \in 1..NRows(heap[ret]) :
            LET samples == OnDay(before, ColName(call.sensor_id, call.x_param),
                                 heap[ret]["timestamp"][k].n)
            IN  samples # <<>> /\ Daily[k] = Mean(samples)

(***************************************************************************)
(* Anomaly Summary tab: every detector run over the whole fleet            *)
(***************************************************************************)
\* the parameters whose columns may hold a spike; the other columns are constant
SpikeParameters == {"ph", "temp"}

\* the fleet table as data_generator writes it: sensors 1..n, each with all
\* its parameter columns; a column is constant (0 in every row) unless it is
\* one of `spikes`, which reads 1 in the third row

FleetTable(n, rows, spikes) ==
    [c \in {"timestamp"} \cup {ColName(i, q) : i \in 1..n, q \in Parameters} |->
        IF c = "timestamp" THEN [r \in 1..rows |-> Num(r)]
        ELSE [r \in 1..rows |-> IF c \in spikes /\ r = 3 THEN Num(1) ELSE Num(0)]]

SummaryInit ==
    /\ \E n \in 1..MaxSensors, rows \in 1..MaxRows :
          \E spikes \in SUBSET {ColName(i, q) : i \in 1..n, q \in SpikeParameters} :
             /\ Cardinality(spikes) <= MaxSpikes
             /\ heap = <<FleetTable(n, rows, spikes)>>
    /\ data = 1
    /\ before = heap[1]
    /\ ret = 0
    /\ call = NoCall
    /\ outcome = "none"
    /\ report = NoReport
    /\ pc = "ready"

\* len([col for col in combined_data.columns if col.endswith('_ph')])
NumSensors(combined_data) ==
    Cardinality({i \in 1..Len(SensorColumns) : ColName(i, "ph") \in DOMAIN combined_data})

\* combined_data[['timestamp', col_name]].copy()
CopyColumns(frame, col_name) == [c \in {"timestamp", col_name} |-> frame[c]]

\* the detector the tab was set to, with window_points = int(window * 60 / 15)
Detect(c, frame, col_name) ==
    IF c.detection_method = "Z-Score"
    THEN detect_anomalies_zscore(frame, col_name, c.threshold)
    ELSE IF c.detection_method = "IQR"
    THEN detect_anomalies_iqr(frame, col_name, c.multiplier)
    ELSE detect_anomalies_rolling(frame, col_name, (c.window * 60) \div 15, c.threshold)

\* the (sensor_id, param) pairs in the order of the two nested loops
LoopPairs(combined_data) ==
    LET np == Len(parameters)
    IN  [k \in 1..(NumSensors(combined_data) * np) |->
            <<((k - 1) \div np) + 1, parameters[((k - 1) % np) + 1]>>]

CountTrue(flags) == Cardinality({i \in 1..Len(flags) : flags[i]})

\* the rows without a value are left out of the total
SummaryEntry_nonmissing(sensor_id, param, anomaly_data, num_anomalies) ==
    [sensor_id |-> sensor_id,
     parameter |-> param,
     total_points |-> Len(NonMissing(anomaly_data[ColName(sensor_id, param)])),
     anomalies |-> num_anomalies,
     anomaly_percent |->
         RMul(RDiv(Num(num_anomalies),
                   Num(Len(NonMissing(anomaly_data[ColName(sensor_id, param)])))),
              Num(100))]

\* results.append({...}): the counts of one column
SummaryEntry(sensor_id, param, anomaly_data, num_anomalies) ==
    [sensor_id |-> sensor_id,
     parameter |-> param,
     total_points |-> NRows(anomaly_data),
     anomalies |-> num_anomalies,
     anomaly_percent |->
         RMul(RDiv(Num(num_anomalies), Num(NRows(anomaly_data))), Num(100))]

\* one pass of the loop body, after the detector has run on the copy
SummaryStep(prev, sensor_id, param, anomaly_data) ==
    [heap |-> Append(prev.heap, anomaly_data),
     results |-> Append(prev.results,
                        SummaryEntry(sensor_id, param, anomaly_data,
                                     CountTrue(anomaly_data["anomaly"])))]

\* the detector's result on the copy of one column
DetectColumn(c, combined_data, col_name) ==
    Detect(c, CopyColumns(combined_data, col_name), col_name)

\* only the entries that have anomalies are appended
SummaryLoop_skipzero(h, combined_data, c) ==
    LET pairs == LoopPairs(combined_data)
        F[k \in 0..Len(pairs)] ==
            IF k = 0 THEN [heap |-> h, results |-> <<>>]
            ELSE IF \/ ColName(pairs[k][1], pairs[k][2]) \notin DOMAIN combined_data
                    \/ CountTrue(DetectColumn(c, combined_data,
                                   ColName(pairs[k][1], pairs[k][2]))["anomaly"]) = 0
            THEN F[k - 1]
            ELSE SummaryStep(F[k - 1], pairs[k][1], pairs[k][2],
                             DetectColumn(c, combined_data,
                                          ColName(pairs[k][1], pairs[k][2])))
    IN  F[Len(pairs)]

\* no copy is taken: the detector runs on combined_data itself
SummaryLoop_inplace(h, combined_data, c) ==
    LET pairs == LoopPairs(combined_data)
        at == CHOOSE k \in 1..Len(h) : h[k] = combined_data
        F[k \in 0..Len(pairs)] ==
            IF k = 0 THEN [heap |-> h, results |-> <<>>]
            ELSE IF ColName(pairs[k][1], pairs[k][2]) \notin DOMAIN combined_data
            THEN F[k - 1]
            ELSE [heap |-> [F[k - 1].heap EXCEPT ![at] =
                               Detect(c, F[k - 1].heap[at],
                                      ColName(pairs[k][1], pairs[k][2]))],
                  results |-> Append(F[k - 1].results,
                      SummaryEntry(pairs[k][1], pairs[k][2], combined_data,
                          CountTrue(Detect(c, F[k - 1].heap[at],
                              ColName(pairs[k][1], pairs[k][2]))["anomaly"])))]
    IN  F[Len(pairs)]

\* the loop over all sensors and parameters: each column is copied, the
\* detector runs on the copy, and the counts of the copy are appended
SummaryLoop(h, combined_data, c) ==
    LET pairs == LoopPairs(combined_data)
        F[k \in 0..Len(pairs)] ==
            IF k = 0 THEN [heap |-> h, results |-> <<>>]
            ELSE IF ColName(pairs[k][1], pairs[k][2]) \notin DOMAIN combined_data
            THEN F[k - 1]
            ELSE SummaryStep(F[k - 1], pairs[k][1], pairs[k][2],
                             DetectColumn(c, combined_data,
                                          ColName(pairs[k][1], pairs[k][2])))
    IN  F[Len(pairs)]

\* results_df.sort_values('Anomaly %', ascending=False): rows with equal
\* percentages keep the order in which they were appended (the order numpy's
\* quicksort leaves for the at most 16 rows of these tables; it is not
\* guaranteed by pandas)
RECURSIVE InsertDesc(_, _)
InsertDesc(x, s) ==
    IF s = <<>> THEN <<x>>
    ELSE IF RGt(x.anomaly_percent, Head(s).anomaly_percent) THEN <<x>> \o s
         ELSE <<Head(s)>> \o InsertDesc(x, Tail(s))

\* the results are left in the order in which the loop appended them
SortValues_unsorted(results) == results

SortValues(results) ==
    LET F[k \in 0..Len(results)] ==
            IF k = 0 THEN <<>> ELSE InsertDesc(results[k], F[k - 1])
    IN  F[Len(results)]

\* the "Run Anomaly Detection" button
RunSummary(c) ==
    /\ pc = "ready"
    /\ \E loop \in {SummaryLoop(heap, heap[data], c)} :
        /\ call' = c
        /\ before' = heap[data]
        /\ IF NRows(heap[data]) = 0 /\ NumSensors(heap[data]) > 0
           THEN \* num_anomalies / anomaly_data.shape[0]
                /\ outcome' = "ZeroDivisionError"
                /\ UNCHANGED <<heap, report>>
           ELSE IF loop.results = <<>>
           THEN \* a frame without columns has no 'Anomaly %' to sort by
                /\ outcome' = "KeyError"
                /\ heap' = loop.heap
                /\ UNCHANGED report
           ELSE /\ outcome' = "returned"
                /\ heap' = loop.heap
                /\ report' = [kind |-> "summary", results_df |-> SortValues(loop.results)]
        /\ ret' = 0
        /\ pc' = "done"
        /\ UNCHANGED data

SummaryZScore(threshold) ==
    RunSummary([NoCall EXCEPT !.method = "summary", !.detection_method = "Z-Score",
                              !.threshold = threshold])

SummaryIQR(multiplier) ==
    RunSummary([NoCall EXCEPT !.method = "summary", !.detection_method = "IQR",
                              !.multiplier = multiplier])

SummaryRolling(window, threshold) ==
    RunSummary([NoCall EXCEPT !.method = "summary", !.detection_method = "Rolling Z-Score",
                              !.window = window, !.threshold = threshold])

SummaryNext ==
    \/ \E t \in Thresholds10 : SummaryZScore(t)
    \/ \E m \in Multipliers10 : SummaryIQR(m)
    \/ \E w \in WindowHours, t \in Thresholds10 : SummaryRolling(w, t)

SpecSummary == SummaryInit /\ [][SummaryNext]_vars

(***************************************************************************)
(* Properties of the summary tab (SpecSummary)                             *)
(***************************************************************************)
SummaryDone == pc = "done" /\ call.method = "summary"

Summary == report.results_df

\* the (sensor, parameter) pairs that have a column in the table
FleetPairs ==
    {sq \in (1..Len(SensorColumns)) \X Parameters : ColName(sq[1], sq[2]) \in DOMAIN before}

EntriesOf(sq) ==
    {k \in 1..Len(Summary) : Summary[k].sensor_id = sq[1] /\ Summary[k].parameter = sq[2]}

\* a series on which no score is defined: constant, or fewer than 2 points
Degenerate(series) == Len(series) < 2 \/ IsConstant(series)

\* C9: the summary has exactly one entry for every (sensor, parameter) pair
\* of the fleet; the entry of a degenerate series (constant, too few points)
\* has anomaly_count = 0 and anomaly_percent = 0, and the other entries are
\* still computed: the report is never aborted or shortened.
C9_OneEntryEach ==
    SummaryDone =>
        /\ outcome = "returned"
        /\ Len(Summary) = Cardinality(FleetPairs)
        /\ \A sq \in FleetPairs :
              /\ Cardinality(EntriesOf(sq)) = 1
              /\ \A k \in EntriesOf(sq) :
                    /\ Summary[k].total_points = NRows(before)
                    /\ Degenerate(before[ColName(sq[1], sq[2])]) =>
                          /\ Summary[k].anomalies = 0
                          /\ Summary[k].anomaly_percent = Num(0)

\* two sensors, a constant column with a zero entry next to flagged ones
C9_Witness ==
    /\ SummaryDone
    /\ Cardinality(FleetPairs) = 2 * Len(parameters)
    /\ \E k \in 1..Len(Summary) : Summary[k].anomalies > 0
    /\ \E k \in 1..Len(Summary) :
          /\ Summary[k].anomalies = 0
          /\ IsConstant(before[ColName(Summary[k].sensor_id, Summary[k].parameter)])

\* the parameter names in ascending (alphabetical) order
ParamRank ==
    [conductivity |-> 1, dissolved_oxygen |-> 2, ph |-> 3, temp |-> 4, turbidity |-> 5]

KeyBefore(a, b) ==
    \/ a.sensor_id < b.sensor_id
    \/ a.sensor_id = b.sensor_id /\ ParamRank[a.parameter] < ParamRank[b.parameter]

\* C10: any two entries of the summary with equal anomaly_percent appear in
\* ascending (sensor_id, parameter) order.
C10_TieOrder ==
    (SummaryDone /\ outcome = "returned") =>
        \A i \in 1..Len(Summary), j \in 1..Len(Summary) :
            (i < j /\ Summary[i].anomaly_percent = Summary[j].anomaly_percent)
                => KeyBefore(Summary[i], Summary[j])

\* C11: the fleet summary is ordered by anomaly_percent in non-increasing
\* order: of any two adjacent entries the earlier one has an anomaly_percent
\* at least that of the later one.
C11_SortedDescending ==
    (SummaryDone /\ outcome = "returned") =>
        \A k \in 1..(Len(Summary) - 1) :
            RLe(Summary[k + 1].anomaly_percent, Summary[k].anomaly_percent)

\* the loop appended an entry without anomalies (pH of sensor 1) before one
\* with anomalies, and the report has them the other way round
C11_Witness ==
    /\ SummaryDone /\ outcome = "returned"
    /\ Summary[1].anomalies > 0
    /\ \E k \in 2..Len(Summary) :
          /\ Summary[k].sensor_id = 1 /\ Summary[k].parameter = "ph"
          /\ Summary[k].anomalies = 0

(***************************************************************************)
(* detect_anomalies_zscore in rounded arithmetic.  The sections above take  *)
(* every float operation as exact; here every operation of the detector is  *)
(* rounded to the nearest float of FloatBits significant bits, ties to     *)
(* even, as IEEE 754 does with 53 bits (the exponent range is not bounded). *)
(***************************************************************************)
FloatBits == 3         \* significant bits of a float
MaxFloatLen == 4       \* longest series of this part

FloatValues == {5, 6, 7}         \* sample values, floats of 3 bits
FloatThresholds10 == {5, 10, 15, 20} \* thresholds 0.5, 1.0, 1.5, 2.0

RECURSIVE Pow2(_)
Pow2(k) == IF k = 0 THEN 1 ELSE 2 * Pow2(k - 1)

\* a/b (a, b > 0) = (a'/b') * 2^e with 2^(FloatBits-1) <= a'/b' < 2^FloatBits
RECURSIVE Normalize(_, _, _)
Normalize(a, b, e) ==
    IF a < Pow2(FloatBits - 1) * b THEN Normalize(2 * a, b, e - 1)
    ELSE IF a >= Pow2(FloatBits) * b THEN Normalize(a, 2 * b, e + 1)
    ELSE [a |-> a, b |-> b, e |-> e]

\* the integer nearest to a/b, ties to even
RoundHalfEven(a, b) ==
    LET q == a \div b
        r == a % b
    IN  IF 2 * r > b \/ (2 * r = b /\ q % 2 = 1) THEN q + 1 ELSE q

\* m * 2^e
Scale(m, e) == IF e >= 0 THEN Rat(m * Pow2(e), 1) ELSE Rat(m, Pow2(-e))

\* the float nearest to the real number x
Fl(x) ==
    IF x.nan \/ x.d = 0 \/ x.n = 0 THEN x
    ELSE LET t == Normalize(Abs(x.n), x.d, 0)
         IN  Scale(Sign(x) * RoundHalfEven(t.a, t.b), t.e)

\* a/b = (a'/b') * 4^e with 4^(FloatBits-1) <= a'/b' < 4^FloatBits
RECURSIVE Normalize4(_, _, _)
Normalize4(a, b, e) ==
    IF a < Pow2(2 * FloatBits - 2) * b THEN Normalize4(4 * a, b, e - 1)
    ELSE IF a >= Pow2(2 * FloatBits) * b THEN Normalize4(a, 4 * b, e + 1)
    ELSE [a |-> a, b |-> b, e |-> e]

\* np.sqrt: the float nearest to the square root of x >= 0
FlSqrt(x) ==
    IF x.nan \/ x.d = 0 \/ x.n = 0 THEN x
    ELSE LET t == Normalize4(x.n, x.d, 0)
             m == CHOOSE k \in Pow2(FloatBits - 1)..(Pow2(FloatBits) - 1) :
                      k * k * t.b <= t.a /\ (k + 1) * (k + 1) * t.b > t.a
             up == \/ 4 * t.a > (2 * m + 1) * (2 * m + 1) * t.b
                   \/ (4 * t.a = (2 * m + 1) * (2 * m + 1) * t.b /\ m % 2 = 1)
         IN  Scale(IF up THEN m + 1 ELSE m, t.e)

\* values.sum(): the values are added one after the other
FlSum(v) ==
    LET F[k \in 0..Len(v)] == IF k = 0 THEN Num(0) ELSE Fl(RAdd(F[k - 1], v[k]))
    IN  F[Len(v)]

\* Series.mean() (nanops.nanmean): values.sum() / count
FlMean(s) ==
    LET v == NonMissing(s)
    IN  IF Len(v) = 0 THEN NaN ELSE Fl(RDiv(FlSum(v), Num(Len(v))))

\* Series.std() (nanops.nanvar, ddof = 1):
\* sqrt(((avg - values) ** 2).sum() / (count - 1))
FlStd(s) ==
    LET v == NonMissing(s)
        sqr == [i \in 1..Len(v) |-> Fl(RSq(Fl(RSub(FlMean(s), v[i]))))]
    IN  IF Len(v) < 2 THEN NaN
        ELSE FlSqrt(Fl(RDiv(FlSum(sqr), Num(Len(v) - 1))))

RAbs(a) == IF a.nan THEN NaN ELSE Rat(Abs(a.n), a.d)

\* detect_anomalies_zscore, every operation rounded; the zscore column holds
\* the score itself
detect_anomalies_zscore_rounded(frame, column, threshold) ==
    LET zscore == [i \in 1..NRows(frame) |->
                      RAbs(Fl(RDiv(Fl(RSub(frame[column][i], FlMean(frame[column]))),
                                   FlStd(frame[column]))))]
        anomaly == [i \in 1..NRows(frame) |-> RGt(zscore[i], Fl(Rat(threshold, 10)))]
    IN  SetColumn(SetColumn(frame, "zscore", zscore), "anomaly", anomaly)

FloatInit ==
    /\ \E series \in SeqsUpTo({Num(v) : v \in FloatValues}, MaxFloatLen) :
          heap = <<MakeFrame(series)>>
    /\ data = 1
    /\ before = heap[1]
    /\ ret = 0
    /\ call = NoCall
    /\ outcome = "none"
    /\ report = NoReport
    /\ pc = "ready"

CallZScoreRounded(threshold) ==
    /\ pc = "ready"
    /\ before' = heap[data]
    /\ heap' = [heap EXCEPT ![data] =
                   detect_anomalies_zscore_rounded(heap[data], "value", threshold)]
    /\ ret' = data
    /\ call' = [NoCall EXCEPT !.method = "zscore", !.threshold = threshold]
    /\ outcome' = "returned"
    /\ pc' = "done"
    /\ UNCHANGED <<data, report>>

FloatNext == \E t \in FloatThresholds10 : CallZScoreRounded(t)

SpecFloat == FloatInit /\ [][FloatNext]_vars

\* C12: on a series in which all values are equal, ZScore and RollingZScore
\* detection (any window, any threshold > 0) flag no point.
C12_ConstantUnflagged ==
    (Returned /\ call.method \in {"zscore", "rolling"} /\ IsConstant(Series)) =>
        Flagged = {}

(***************************************************************************)
(* Further properties of the point detectors (SpecDetect)                  *)
(***************************************************************************)
\* the rows of a frame whose anomaly flag is set
FlaggedIn(frame) == {i \in 1..NRows(frame) : frame["anomaly"][i]}

\* the rolling score of row i is undefined
ScoreUndefined(i) ==
    \/ Result["rolling_mean"][i].nan
    \/ Result["rolling_std"][i].nan
    \/ Result["rolling_std"][i] = Num(0)

\* C13: in RollingZScore detection every point whose score is undefined
\* (rolling mean or rolling std not available, or rolling std equal to 0) has
\* is_anomaly = false, and is_anomaly is a definite boolean on every point.
C13_UndefinedUnflagged ==
    RollingReturned =>
        \A i \in 1..Len(Series) :
            /\ Result["anomaly"][i] \in BOOLEAN
            /\ ScoreUndefined(i) => ~Result["anomaly"][i]

\* one run with an incomplete window, a window of equal values and a flag
C13_Witness ==
    /\ RollingReturned
    /\ Flagged # {}
    /\ \E i \in 1..Len(Series) : Result["rolling_mean"][i].nan
    /\ \E i \in 1..Len(Series) : Result["rolling_std"][i] = Num(0)

\* C15: raising the ZScore threshold never adds a flagged point: the points
\* flagged at a threshold t2 >= t1 are among those flagged at t1.
C15_ThresholdMonotone ==
    (Returned /\ call.method = "zscore") =>
        \A t \in Thresholds10 :
            t >= call.threshold =>
                FlaggedIn(detect_anomalies_zscore(before, "value", t)) \subseteq Flagged

\* flagged at 1.0, and fewer points flagged at 2.0
C15_Witness ==
    /\ Returned /\ call.method = "zscore" /\ call.threshold = 10
    /\ Flagged # {}
    /\ FlaggedIn(detect_anomalies_zscore(before, "value", 20)) # Flagged

\* C16: raising the IQR multiplier never adds a flagged point: for
\* 0 < m1 <= m2 the interval [lower, upper] at m2 contains the one at m1 and
\* the points flagged at m2 are among those flagged at m1.
C16_MultiplierMonotone ==
    (Returned /\ call.method = "iqr") =>
        \A m \in Multipliers10 :
            m >= call.multiplier =>
                /\ FlaggedIn(detect_anomalies_iqr(before, "value", m)) \subseteq Flagged
                /\ NonMissingCount >= 1 =>
                      /\ RLe(detect_anomalies_iqr(before, "value", m)["lower_bound"][1],
                             Result["lower_bound"][1])
                      /\ RLe(Result["upper_bound"][1],
                             detect_anomalies_iqr(before, "value", m)["upper_bound"][1])

\* flagged at 1.0, and fewer points flagged at 1.5
C16_Witness ==
    /\ Returned /\ call.method = "iqr" /\ call.multiplier = 10
    /\ Flagged # {}
    /\ FlaggedIn(detect_anomalies_iqr(before, "value", 15)) # Flagged

\* C17: the IQR bounds reported on the points satisfy
\* lower_bound <= Q1 <= Q3 <= upper_bound, every point carries the same pair
\* of bounds, and a point is flagged exactly when its value is strictly below
\* lower_bound or strictly above upper_bound.
C17_Bounds ==
    (Returned /\ call.method = "iqr" /\ NonMissingCount >= 1) =>
        \A i \in 1..Len(Series) :
            /\ Result["lower_bound"][i] = Result["lower_bound"][1]
            /\ Result["upper_bound"][i] = Result["upper_bound"][1]
            /\ RLe(Result["lower_bound"][i], Quantile(Series, 1))
            /\ RLe(Quantile(Series, 1), Quantile(Series, 3))
            /\ RLe(Quantile(Series, 3), Result["upper_bound"][i])
            /\ Result["anomaly"][i] <=>
                  \/ RLt(Series[i], Result["lower_bound"][i])
                  \/ RGt(Series[i], Result["upper_bound"][i])

\* a value equal to a bound, not flagged, next to a flagged one
C17_Witness ==
    /\ Returned /\ call.method = "iqr"
    /\ Flagged # {}
    /\ \E i \in 1..Len(Series) :
          /\ i \notin Flagged
          /\ Series[i] = Result["upper_bound"][i]

(***************************************************************************)
(* Trend Detection tab with the "Perform Seasonal Decomposition" button    *)
(***************************************************************************)
MaxDays == 15          \* most calendar days spanned by the table of this part
MaxMissing == 1        \* most days, between the first and the last, without a sample

MinDailyPoints == 14   \* len(daily_data) >= 14
period == 7            \* seasonal_decompose(..., period=7)

\* the course of the daily values: all equal, a weekly peak, one step up
DecompShapes == {"flat", "weekly", "step"}

ShapeValue(shape, day) ==
    IF shape = "weekly" THEN (IF day % period = 0 THEN 1 ELSE 0)
    ELSE IF shape = "step" THEN (IF day >= period THEN 1 ELSE 0)
    ELSE 0

\* the days 0..days-1 that have a sample, in order
PresentDays(days, missing) ==
    LET F[d \in 0..days] ==
            IF d = 0 THEN <<>>
            ELSE IF (d - 1) \in missing THEN F[d - 1] ELSE Append(F[d - 1], d - 1)
    IN  F[days]

\* one sample on each present day
DecompTable(present, shape) ==
    [c \in {"timestamp", ColName(1, "ph")} |->
        IF c = "timestamp" THEN [i \in 1..Len(present) |-> Num(present[i])]
        ELSE [i \in 1..Len(present) |-> Num(ShapeValue(shape, present[i]))]]

DecompInit ==
    /\ \E days \in 1..MaxDays, shape \in DecompShapes :
          \E missing \in SUBSET (1..(days - 2)) :
             /\ Cardinality(missing) <= MaxMissing
             /\ heap = <<DecompTable(PresentDays(days, missing), shape)>>
    /\ data = 1
    /\ before = heap[1]
    /\ ret = 0
    /\ call = NoCall
    /\ outcome = "none"
    /\ report = NoReport
    /\ pc = "ready"

\* convolution_filter(x, repeat(1/period, period), nsides=2): the mean of the
\* `period` rows centred on row i; NaN on the first and last period // 2 rows
MovingAverage(y, i) ==
    IF i - period \div 2 < 1 \/ i + period \div 2 > Len(y) THEN NaN
    ELSE RDiv(SumR([k \in 1..period |-> y[i - period \div 2 - 1 + k]]), Num(period))

\* x - trend
Detrend(y) == [i \in 1..Len(y) |-> RSub(y[i], MovingAverage(y, i))]

\* x[k::period], k = 0..period-1
EveryPeriod(x, k) ==
    [j \in 1..((Len(x) - k + period - 1) \div period) |-> x[k + 1 + (j - 1) * period]]

\* seasonal_mean(detrended, period): pd_nanmean of every period-th row
PeriodAverages(detrended) ==
    [k \in 1..period |-> Mean(EveryPeriod(detrended, k - 1))]

\* np.mean: NaN if any entry is NaN
MeanAll(x) ==
    IF \E i \in 1..Len(x) : x[i].nan THEN NaN ELSE RDiv(SumR(x), Num(Len(x)))

\* period_averages -= np.mean(period_averages), tiled over the rows
Seasonal(averages, n) ==
    [i \in 1..n |-> RSub(averages[((i - 1) % period) + 1], MeanAll(averages))]

\* the seasonal component is not taken out of the residual
DecomposeResult_detrended(y, detrended, seasonal) ==
    [observed |-> y,
     trend |-> [i \in 1..Len(y) |-> MovingAverage(y, i)],
     seasonal |-> seasonal,
     resid |-> detrended]

\* DecomposeResult(observed, trend, seasonal, resid)
DecomposeResult(y, detrended, seasonal) ==
    [observed |-> y,
     trend |-> [i \in 1..Len(y) |-> MovingAverage(y, i)],
     seasonal |-> seasonal,
     resid |-> [i \in 1..Len(y) |-> RSub(detrended[i], seasonal[i])]]

\* seasonal_decompose(x, model='additive', period=7), x finite
seasonal_decompose(y) ==
    DecomposeResult(y, Detrend(y), Seasonal(PeriodAverages(Detrend(y)), Len(y)))

\* what the tab does below the trend chart: the warning, or, the button being
\* pressed, the decomposition; seasonal_decompose raises ValueError on missing
\* values and the tab reports the exception with st.error
Decomposition(y) ==
    IF Len(y) >= MinDailyPoints
    THEN IF \E i \in 1..Len(y) : y[i].nan
         THEN [status |-> "error"]
         ELSE [status |-> "done", period |-> period, result |-> seasonal_decompose(y)]
    ELSE [status |-> "warning"]

\* the scalars of the trend test on the daily values y
TrendReport(y, result) ==
    [kind |-> "trend",
     tau |-> result.tau,
     p_value |-> result.p_value,
     trend_direction |-> TrendDirection(result.tau, result.p_value),
     slope |-> IF PolyfitDegenerate(y) THEN NaN ELSE Slope(y)]

\* one run of the tab with the button pressed; when np.polyfit raises, the
\* run ends before the decomposition part of the tab
DecompositionButton(sensor_id, param_code) ==
    /\ pc = "ready"
    /\ IF ColName(sensor_id, param_code) \in DOMAIN heap[data]
       THEN \E daily_data \in {Resample(heap[data], ColName(sensor_id, param_code))} :
            \E y \in {daily_data[ColName(sensor_id, param_code)]} :
            \E raised \in (IF PolyfitDegenerate(y) THEN BOOLEAN ELSE {FALSE}) :
               /\ heap' = Append(heap, daily_data)
               /\ ret' = Len(heap) + 1
               /\ before' = heap[data]
               /\ call' = [NoCall EXCEPT !.method = "decompose",
                              !.sensor_id = sensor_id, !.x_param = param_code]
               /\ outcome' = IF raised THEN "LinAlgError" ELSE "returned"
               /\ report' = [trend |-> TrendReport(y, KendallTau(y)),
                             kind |-> "decomposition",
                             decomposition |-> IF raised THEN [status |-> "none"]
                                               ELSE Decomposition(y)]
               /\ pc' = "done"
       ELSE UNCHANGED <<heap, ret, before, call, report, outcome, pc>>
    /\ UNCHANGED data

DecompNext ==
    \E param_code \in Parameters : DecompositionButton(1, param_code)

SpecDecomp == DecompInit /\ [][DecompNext]_vars

DecompDone == pc = "done" /\ call.method = "decompose"

\* C14: on a series with fewer than 14 daily points decompose fails
\* explicitly (the tab's "not enough data" warning) and performs no
\* decomposition; with 14 or more daily points the decomposition is carried
\* out, with period 7.
C14_Decompose ==
    (DecompDone /\ outcome = "returned") =>
        IF Len(Daily) < 14
        THEN report.decomposition.status = "warning"
        ELSE /\ report.decomposition.status = "done"
             /\ report.decomposition.period = 7

(***************************************************************************)
(* Further properties of the trend tab (SpecTrend)                         *)
(***************************************************************************)
\* C18: the trend direction is a function of (tau, p_value) only: increasing
\* exactly when p_value < 0.05 and tau > 0, decreasing exactly when
\* p_value < 0.05 and tau < 0, and none ("no significant") in every other
\* case, tau = 0 and an undefined tau or p_value included.
C18_DirectionFunction ==
    TrendDone =>
        report.trend_direction =
            IF BelowAlpha(report.p_value) /\ ~report.tau.nan /\ report.tau.sign > 0
            THEN "increasing"
            ELSE IF BelowAlpha(report.p_value) /\ ~report.tau.nan /\ report.tau.sign < 0
            THEN "decreasing"
            ELSE "no significant"

\* a significant falling trend
C18_Witness ==
    /\ TrendDone
    /\ BelowAlpha(report.p_value)
    /\ report.tau.sign < 0
    /\ report.trend_direction = "decreasing"

\* C19: the tau of the trend report lies in [-1, 1] and its p_value in
\* [0, 1], and neither is undefined, also when days are without samples or
\* all daily means are equal (series of at least two daily rows).
C19_TauPDefined ==
    (TrendDone /\ outcome = "returned" /\ Len(Daily) >= 2) =>
        /\ ~report.tau.nan
        /\ RLe(report.tau.sq, Num(1))
        /\ ~report.p_value.nan
        /\ report.p_value.exact =>
              (RLe(Num(0), report.p_value.p) /\ RLe(report.p_value.p, Num(1)))

(***************************************************************************)
(* Further properties of the correlation tab (SpecCorr)                    *)
(***************************************************************************)
\* confidence levels a caller may ask for, in percent
Confidences == {50, 95}

\* chi2.ppf(confidence, 2) = -2 ln(1 - confidence), to four decimals
ChiSquarePpf(confidence) ==
    IF confidence = 95 THEN ChiSquare95 ELSE Rat(13863, 10000)

\* C20: a point is flagged exactly when its Mahalanobis distance d exceeds
\* sqrt(chi-square inverse CDF(confidence, 2)) for the confidence the caller
\* supplies (0.95 when none is supplied): whatever confidence is asked for,
\* the flags are those of its threshold.
C20_ThresholdFollowsConfidence ==
    (CorrDone /\ outcome = "returned") =>
        \A confidence \in Confidences :
            \A i \in 1..NRows(heap[ret]) :
                heap[ret]["anomaly"][i] <=>
                    RGt(heap[ret]["mahalanobis"][i], ChiSquarePpf(confidence))

(***************************************************************************)
(* The correlation tab on a table and on an affine image of it (SpecAffine)*)
(***************************************************************************)
MaxAffineLen == 8      \* most rows of the two tables

\* a*v + b applied to one of the two columns: <<column, a, b>>, a # 0
AffineMaps ==
    {<<q, ab[1], ab[2]>> : q \in {"ph", "temp"}, ab \in {<<-1, 0>>, <<2, 1>>, <<-3, 2>>}}

\* the 0/1 series of n rows with at most k ones
SpikeSeries(n, k) ==
    {s \in [1..n -> {Num(0), Num(1)}] : Cardinality({i \in 1..n : s[i] = Num(1)}) <= k}

\* the series of n rows that is 0 throughout, and the one that is 1 in its
\* first row only
FirstSpike(n) == {s \in SpikeSeries(n, 1) : \A i \in 2..n : s[i] = Num(0)}

AffineImage(a, b, v) == [i \in 1..Len(v) |-> RAdd(RMul(Num(a), v[i]), Num(b))]

\* heap[1] is combined_data, heap[2] the same table with one column replaced
\* by its affine image
AffineInit ==
    /\ \E n \in 3..MaxAffineLen :
          \E ph \in SpikeSeries(n, 1), temp \in FirstSpike(n), f \in AffineMaps :
              heap = <<MakeTable(ph, temp),
                       IF f[1] = "ph"
                       THEN MakeTable(AffineImage(f[2], f[3], ph), temp)
                       ELSE MakeTable(ph, AffineImage(f[2], f[3], temp))>>
    /\ data = 1
    /\ before = heap[1]
    /\ ret = 0
    /\ call = NoCall
    /\ outcome = "none"
    /\ report = NoReport
    /\ pc = "ready"

\* the tab is shown again after combined_data has been replaced by heap[2],
\* with the same sensor and axes selected
CorrelationTabAgain ==
    LET sensor_data == SensorData(heap[2], call.sensor_id)
        x == sensor_data[call.x_param]
        y == sensor_data[call.y_param]
        cov_matrix == CovStd(x, y)
        mahalanobis == [i \in 1..NRows(sensor_data) |-> Mahalanobis2(x, y, i)]
        anomaly == [i \in 1..NRows(sensor_data) |-> RGt(mahalanobis[i], ChiSquare95)]
    IN  /\ pc = "done"
        /\ call.method = "correlation"
        /\ data = 1
        /\ Len(heap) = 3
        /\ data' = 2
        /\ report' = [first |-> ret, first_outcome |-> outcome] @@
                          CorrelationReport("correlation again", Corr(x, y),
                                            ~InvRaises(cov_matrix))
        /\ IF InvRaises(cov_matrix)
           THEN /\ outcome' = "LinAlgError"
                /\ heap' = Append(heap, sensor_data)
           ELSE /\ outcome' = "returned"
                /\ heap' = Append(heap,
                       SetColumn(SetColumn(sensor_data, "anomaly", anomaly),
                                 "mahalanobis", mahalanobis))
        /\ ret' = Len(heap) + 1
        /\ before' = heap[2]
        /\ pc' = "done"
        /\ UNCHANGED call

AffineNext ==
    \/ \E x_param \in {"ph", "temp"} :
          CorrelationTab(1, x_param, CHOOSE y_param \in {"ph", "temp"} : y_param # x_param)
    \/ CorrelationTabAgain

SpecAffine == AffineInit /\ [][AffineNext]_vars

AffineDone == pc = "done" /\ report.kind = "correlation again"

\* C21: the per-point Mahalanobis distances, and with them the anomaly flags,
\* are the same on a table and on the table in which either column of the
\* pair is replaced by its affine image a*v + b, a # 0.
C21_AffineInvariant ==
    AffineDone =>
        /\ outcome = report.first_outcome
        /\ outcome = "returned" =>
              /\ heap[ret]["mahalanobis"] = heap[report.first]["mahalanobis"]
              /\ heap[ret]["anomaly"] = heap[report.first]["anomaly"]

\* both runs returned, a point is flagged, and the image differs from the
\* column it replaces
C21_Witness ==
    /\ AffineDone
    /\ outcome = "returned"
    /\ \E i \in 1..NRows(heap[ret]) : heap[ret]["anomaly"][i]
    /\ \E i \in 1..NRows(heap[ret]) : ~heap[ret]["anomaly"][i] /\ ~heap[ret]["mahalanobis"][i].nan
    /\ heap[2] # heap[1]
    /\ \E q \in {call.x_param, call.y_param} : heap[2][ColName(1, q)] # heap[1][ColName(1, q)]

\* C22: the reported correlation category is a total function of the Pearson
\* coefficient r of the raw pair: strong when |r| > 0.7, moderate when
\* 0.3 < |r| <= 0.7, weak when |r| <= 0.3; the reported direction is the
\* sign of r, positive for r > 0 and negative for r < 0 (r defined).
C22_Category ==
    (CorrDone /\ outcome = "returned" /\ ~report.corr.nan) =>
        /\ report.strength = "strong" <=> RGt(report.corr.sq, Rat(49, 100))
        /\ report.strength = "moderate" <=>
              (RGt(report.corr.sq, Rat(9, 100)) /\ RLe(report.corr.sq, Rat(49, 100)))
        /\ report.strength = "weak" <=> RLe(report.corr.sq, Rat(9, 100))
        /\ report.direction = "positive" <=> report.corr.sign > 0
        /\ report.direction = "negative" <=> report.corr.sign < 0

(***************************************************************************)
(* Further properties of the decomposition (SpecDecomp)                    *)
(***************************************************************************)
\* the decomposition drawn by the tab
Components == report.decomposition.result

Decomposed ==
    DecompDone /\ outcome = "returned" /\ report.decomposition.status = "done"

\* C23: on a series of 14 or more daily points, the additive decomposition
\* with period 7 satisfies observed[i] = trend[i] + seasonal[i] + resid[i] at
\* every row i where trend, seasonal and resid are all defined, and each of
\* the four output series has as many rows as the daily input.
C23_Additive ==
    Decomposed =>
        /\ Len(Daily) >= 14
        /\ \A c \in {"observed", "trend", "seasonal", "resid"} :
              Len(Components[c]) = Len(Daily)
        /\ Components.observed = Daily
        /\ \A i \in 1..Len(Daily) :
              (~Components.trend[i].nan /\ ~Components.seasonal[i].nan
                  /\ ~Components.resid[i].nan) =>
                 Components.observed[i] =
                    RAdd(RAdd(Components.trend[i], Components.seasonal[i]),
                         Components.resid[i])

\* a decomposition with a row on which all three components are defined and
\* none of them is zero, and a row without trend
C23_Witness ==
    /\ Decomposed
    /\ \E i \in 1..Len(Daily) :
          /\ ~Components.trend[i].nan /\ Components.trend[i] # Num(0)
          /\ ~Components.seasonal[i].nan /\ Components.seasonal[i] # Num(0)
          /\ ~Components.resid[i].nan /\ Components.resid[i] # Num(0)
    /\ \E i \in 1..Len(Daily) : Components.trend[i].nan

(***************************************************************************)
(* The Time Series tab and the summary on one table (SpecDashboard)        *)
(***************************************************************************)
\* the Time Series tab for one sensor and parameter: the detector chosen in
\* the tab runs on a copy of the two columns, and the counts are shown
TimeSeriesTab(sensor_id, param_code, c) ==
    /\ pc = "ready"
    /\ ColName(sensor_id, param_code) \in DOMAIN heap[data]
    /\ \E anomaly_data \in {DetectColumn(c, heap[data], ColName(sensor_id, param_code))} :
          /\ heap' = Append(heap, anomaly_data)
          /\ report' = [kind |-> "timeseries",
                        entry |-> SummaryEntry(sensor_id, param_code, anomaly_data,
                                               CountTrue(anomaly_data["anomaly"]))]
    /\ ret' = Len(heap) + 1
    /\ before' = heap[data]
    /\ call' = [c EXCEPT !.method = "timeseries", !.sensor_id = sensor_id,
                         !.x_param = param_code]
    /\ outcome' = "returned"
    /\ pc' = "done"
    /\ UNCHANGED data

\* the settings of the three detection methods
MethodSettings ==
    {[NoCall EXCEPT !.detection_method = "Z-Score", !.threshold = t] : t \in Thresholds10}
    \cup {[NoCall EXCEPT !.detection_method = "IQR", !.multiplier = m] : m \in Multipliers10}
    \cup {[NoCall EXCEPT !.detection_method = "Rolling Z-Score", !.window = w,
                         !.threshold = t] : w \in WindowHours, t \in Thresholds10}

DashboardNext ==
    \/ \E sensor_id \in 1..MaxSensors, param_code \in Parameters, c \in MethodSettings :
          TimeSeriesTab(sensor_id, param_code, c)
    \/ SummaryNext

SpecDashboard == SummaryInit /\ [][DashboardNext]_vars

TimeSeriesDone == pc = "done" /\ call.method = "timeseries"

\* C24: a detection run from the dashboard (Time Series tab or fleet summary,
\* any method) leaves combined_data as it was, columns and values: every
\* detector call is made on a copy of the selected columns, and so the result
\* of an entry is that of the detector on the untouched table, whatever was
\* analysed before it.
C24_CombinedDataUnchanged ==
    /\ (SummaryDone \/ TimeSeriesDone) => heap[data] = before
    /\ TimeSeriesDone =>
          /\ heap[ret] = DetectColumn(call, before, ColName(call.sensor_id, call.x_param))
          /\ report.entry.anomalies = CountTrue(heap[ret]["anomaly"])
    /\ (SummaryDone /\ outcome = "returned") =>
          \A k \in 1..Len(Summary) :
              Summary[k].anomalies =
                  CountTrue(DetectColumn(call, before,
                      ColName(Summary[k].sensor_id, Summary[k].parameter))["anomaly"])

\* a summary run in which the detector added its columns to the copies, two
\* of them with flagged rows
C24_Witness ==
    /\ SummaryDone
    /\ outcome = "returned"
    /\ Cardinality({k \in 1..Len(Summary) : Summary[k].anomalies > 0}) >= 2
    /\ \A k \in 2..Len(heap) : "anomaly" \in DOMAIN heap[k]
    /\ "anomaly" \notin DOMAIN heap[data]

(***************************************************************************)
(* The Time Series tab on a column with missing samples (SpecMissing)      *)
(***************************************************************************)
\* the table of one sensor whose pH column has missing samples
MissingInit ==
    /\ \E series \in SeqsUpTo(Cells, MaxLen) :
          /\ Len(series) >= 1
          /\ heap = <<[c \in {"timestamp", ColName(1, "ph")} |->
                         IF c = "timestamp" THEN [i \in 1..Len(series) |-> Num(i)]
                         ELSE series]>>
    /\ data = 1
    /\ before = heap[1]
    /\ ret = 0
    /\ call = NoCall
    /\ outcome = "none"
    /\ report = NoReport
    /\ pc = "ready"

MissingNext ==
    \E c \in {m \in MethodSettings : m.detection_method \in {"Z-Score", "IQR"}} :
        TimeSeriesTab(1, "ph", c)

SpecMissing == MissingInit /\ [][MissingNext]_vars

\* the entries of column v on the rows where series s has a value
Keep(v, s) ==
    LET F[k \in 0..Len(s)] ==
            IF k = 0 THEN <<>>
            ELSE IF s[k].nan THEN F[k - 1] ELSE Append(F[k - 1], v[k])
    IN  F[Len(s)]

\* the frame without the rows on which the column has no value
DropMissing(frame, col) == [c \in DOMAIN frame |-> Keep(frame[c], frame[col])]

\* the series the tab was run on
TabSeries == before[ColName(call.sensor_id, call.x_param)]

\* C25: a sample whose value is missing is never flagged by ZScore or IQR
\* detection; the missing samples do not change the mean, the standard
\* deviation or the quartiles used for the other points (their scores,
\* bounds and flags are those of the series without the missing samples);
\* and the missing samples count in total_points, on which anomaly_percent
\* is taken.
C25_MissingSamples ==
    TimeSeriesDone =>
        /\ \A i \in 1..Len(TabSeries) : TabSeries[i].nan => ~heap[ret]["anomaly"][i]
        /\ \E d \in {DetectColumn(call, DropMissing(before, ColName(call.sensor_id, call.x_param)),
                                  ColName(call.sensor_id, call.x_param))} :
              \A c \in (DOMAIN d) \ {"timestamp"} : Keep(heap[ret][c], TabSeries) = d[c]
        /\ report.entry.total_points = Len(TabSeries)
        /\ report.entry.anomaly_percent =
              Rat(100 * report.entry.anomalies, Len(TabSeries))

\* a series with a missing sample and a flagged one
C25_Witness ==
    /\ TimeSeriesDone
    /\ \E i \in 1..Len(TabSeries) : TabSeries[i].nan
    /\ report.entry.anomalies >= 1
    /\ Len(NonMissing(TabSeries)) >= 3

(***************************************************************************)
(* The largest score of a series                                           *)
(***************************************************************************)
\* t10/10 >= (n - 1) / sqrt(n)
AtLeastScoreBound(t10, n) == t10 * t10 * n >= 100 * (n - 1) * (n - 1)

\* C26: under ZScore detection with the sample standard deviation over
\* n >= 2 points no score exceeds (n - 1) / sqrt(n), and so with a threshold
\* of at least (n - 1) / sqrt(n) no point of a series of n points is flagged.
C26_ScoreBound ==
    (Returned /\ call.method = "zscore" /\ Len(Series) >= 2) =>
        /\ \A i \in 1..Len(Series) :
              ~Result["zscore"][i].nan =>
                  RLe(RSq(Result["zscore"][i]),
                      Rat((Len(Series) - 1) * (Len(Series) - 1), Len(Series)))
        /\ AtLeastScoreBound(call.threshold, Len(Series)) => Flagged = {}

(***************************************************************************)
(* The Time Series tab with the rolling detector (SpecRolling)             *)
(***************************************************************************)
RollingNext ==
    \E c \in {m \in MethodSettings : m.detection_method = "Rolling Z-Score"} :
        TimeSeriesTab(1, "ph", c)

SpecRolling == MissingInit /\ [][RollingNext]_vars

\* window_points = int(window * 60 / 15)
WindowPoints == (call.window * 60) \div 15

\* the rows i - floor(window/2) .. i + floor((window-1)/2) of the series
CentredRange(i) ==
    SubSeq(TabSeries, i - WindowPoints \div 2, i + (WindowPoints - 1) \div 2)

RangeInside(i) ==
    i - WindowPoints \div 2 >= 1 /\ i + (WindowPoints - 1) \div 2 <= Len(TabSeries)

\* C27: the rolling statistics of position i are taken over exactly the
\* `window` consecutive positions i - floor(window/2) .. i + floor((window-1)/2)
\* and are defined only when that whole range lies inside the series; the
\* dashboard passes the even window 4 * hours, so that the first window/2
\* positions are undefined but only the last window/2 - 1.
C27_WindowRange ==
    TimeSeriesDone =>
        /\ WindowPoints = 4 * call.window
        /\ \A i \in 1..Len(TabSeries) :
              /\ ~RangeInside(i) =>
                    heap[ret]["rolling_mean"][i].nan /\ heap[ret]["rolling_std"][i].nan
              /\ (RangeInside(i) /\ NonMissing(CentredRange(i)) = CentredRange(i)) =>
                    /\ Len(CentredRange(i)) = WindowPoints
                    /\ heap[ret]["rolling_mean"][i] = Mean(CentredRange(i))
                    /\ heap[ret]["rolling_std"][i] = Var(CentredRange(i))
              /\ (i <= WindowPoints \div 2 \/ i > Len(TabSeries) - (WindowPoints \div 2 - 1)) =>
                    heap[ret]["rolling_mean"][i].nan

\* a 4-row window on 5 rows: the second row from the end has statistics, the
\* first two rows and the last one have none
C27_Witness ==
    /\ TimeSeriesDone
    /\ WindowPoints = 4
    /\ Len(TabSeries) = 5
    /\ ~IsConstant(TabSeries)
    /\ heap[ret]["rolling_mean"][1].nan /\ heap[ret]["rolling_mean"][2].nan
    /\ ~heap[ret]["rolling_mean"][3].nan
    /\ ~heap[ret]["rolling_mean"][4].nan /\ ~heap[ret]["rolling_std"][4].nan
    /\ heap[ret]["rolling_mean"][5].nan

(***************************************************************************)
(* aws_to_csv.py: MQTT messages saved to CSV files (SpecMqtt)              *)
(*                                                                         *)
(* heap holds the CSV files of the output directory (a file is the         *)
(* sequence of its rows, <<>> while it does not exist), report is          *)
(* received_messages, call the payload of the last message and before the  *)
(* files as they were when it arrived.                                     *)
(***************************************************************************)
MaxMessages == 3       \* most messages received

\* device_id.split('_')[-1] of the devices that publish
DeviceSuffixes == {"1", "2", "x"}

\* the calendar days of the timestamps
MqttDays == {1, 2}

\* the readings: a pH value, and the location the device names, if any
Readings ==
    {[ph |-> 6, location |-> "absent"], [ph |-> 7, location |-> "Chiang Mai Rice Field"]}

\* timestamps: an ISO string of some day, or a string fromisoformat rejects
Timestamps ==
    {[kind |-> "iso", day |-> d] : d \in MqttDays} \cup {[kind |-> "garbled", day |-> 0]}

Payloads ==
    {[suffix |-> x, timestamp |-> t, ph |-> r.ph, location |-> r.location] :
        x \in DeviceSuffixes, t \in Timestamps, r \in Readings}

\* str.isdigit() and int() on the last part of the device id
IsDigit(suffix) == suffix \in {"1", "2"}

IntOf(suffix) == IF suffix = "1" THEN 1 ELSE 2

\* int(device_id.split('_')[-1]) if it is all digits, else 1
SensorId(message) == IF IsDigit(message.suffix) THEN IntOf(message.suffix) ELSE 1

MqttSensors == {SensorId(m) : m \in Payloads}

NoFiles ==
    [combined |-> <<>>, sensor |-> [i \in MqttSensors |-> <<>>],
     daily |-> <<>>, info |-> <<>>]

MqttInit ==
    /\ heap = NoFiles
    /\ report = <<>>
    /\ call = NoCall
    /\ before = NoFiles
    /\ outcome = "none"
    /\ data = 0
    /\ ret = 0
    /\ pc = "listening"

\* to_csv(file, mode='a', header=False), or to_csv(file) of a new file
AppendRow(file, row) == Append(file, row)

\* the row of combined_sensor_data.csv and of sensor_<id>_data.csv
SensorDataRow(sensor_id, message) ==
    [timestamp |-> message.timestamp.day, sensor_id |-> sensor_id, ph |-> message.ph]

\* a row is appended for every message, also on a date that has a row
update_daily_summary_append(daily, sensor_id, sensor_data) ==
    AppendRow(daily, [date |-> sensor_data.timestamp, sensor_id |-> sensor_id,
                      ph_avg |-> sensor_data.ph, ph_min |-> sensor_data.ph,
                      ph_max |-> sensor_data.ph])

\* the file after update_daily_summary: a date that has a row keeps it
update_daily_summary(daily, sensor_id, sensor_data) ==
    IF \E k \in 1..Len(daily) : daily[k].date = sensor_data.timestamp
    THEN daily
    ELSE AppendRow(daily, [date |-> sensor_data.timestamp, sensor_id |-> sensor_id,
                           ph_avg |-> sensor_data.ph, ph_min |-> sensor_data.ph,
                           ph_max |-> sensor_data.ph])

\* f'Location {sensor_id}'
DefaultLocation(sensor_id) == IF sensor_id = 1 THEN "Location 1" ELSE "Location 2"

\* the row of sensor_info.csv (its dates are those of the clock)
new_sensor(sensor_id, message) ==
    [sensor_id |-> sensor_id,
     location_name |-> IF message.location = "absent" THEN DefaultLocation(sensor_id)
                       ELSE message.location,
     maintenance_interval_days |-> 90]

\* a row is appended for every message, also for a sensor that has a row
update_sensor_info_append(info, sensor_id, message) ==
    AppendRow(info, new_sensor(sensor_id, message))

\* the file after update_sensor_info: a sensor that has a row keeps it; the
\* row is written with the fields of the message that creates it
update_sensor_info(info, sensor_id, message) ==
    IF \E k \in 1..Len(info) : info[k].sensor_id = sensor_id
    THEN info
    ELSE AppendRow(info, new_sensor(sensor_id, message))

\* the files after process_message
process_message(files, message) ==
    [combined |-> AppendRow(files.combined, SensorDataRow(SensorId(message), message)),
     sensor |-> [files.sensor EXCEPT ![SensorId(message)] =
                    AppendRow(@, SensorDataRow(SensorId(message), message))],
     daily |-> update_daily_summary(files.daily, SensorId(message),
                                    SensorDataRow(SensorId(message), message)),
     info |-> update_sensor_info(files.info, SensorId(message), message)]

\* one message, handled to the end before the next: it is appended to
\* received_messages; a timestamp that cannot be parsed raises in
\* process_message before any file is written, and the error is logged
mqtt_callback(message) ==
    /\ pc = "listening"
    /\ Len(report) < MaxMessages
    /\ report' = Append(report, message)
    /\ call' = message
    /\ before' = heap
    /\ IF message.timestamp.kind = "iso"
       THEN /\ heap' = process_message(heap, message)
            /\ outcome' = "saved"
       ELSE /\ heap' = heap
            /\ outcome' = "error"
    /\ UNCHANGED <<data, ret, pc>>

MqttNext == \E message \in Payloads : mqtt_callback(message)

SpecMqtt == MqttInit /\ [][MqttNext]_vars

(***************************************************************************)
(* Properties of the integration (SpecMqtt)                                *)
(***************************************************************************)
\* the received messages whose data were saved
SavedMessages == {k \in 1..Len(report) : report[k].timestamp.kind = "iso"}

RowsOfSensor(info, sensor_id) == {k \in 1..Len(info) : info[k].sensor_id = sensor_id}

RowsOfDate(daily, date) == {k \in 1..Len(daily) : daily[k].date = date}

MessageSaved == Len(report) >= 1 /\ outcome = "saved"

MaxReadings == 2       \* most readings published

\* the parameters of this part (the loop treats all parameters alike)
GenParams == {"ph", "turbidity"}

DEFAULT_PARAMS ==
    [ph |-> [min |-> 5500, max |-> 7500, drift |-> 100],
     turbidity |-> [min |-> 0, max |-> 20000, drift |-> 1000]]

\* values random.uniform(min, max) may return
UniformRange(config) == {config.min, config.min + 4, config.min + 45, config.max}

\* values random.uniform(-drift, drift) may return
UniformDrift(config) == {-config.drift, -7, 4, config.drift}

\* one draw of random.uniform for every parameter
Draws(Uniform(_)) ==
    {draw \in [GenParams -> UNION {Uniform(DEFAULT_PARAMS[param]) : param \in GenParams}] :
        \A param \in GenParams : draw[param] \in Uniform(DEFAULT_PARAMS[param])}

\* max(config["min"], min(config["max"], new_value)) without its lower part
Clamp_upper(config, new_value) ==
    IF new_value > config.max THEN config.max ELSE new_value

\* max(config["min"], min(config["max"], new_value))
Clamp(config, new_value) ==
    IF new_value > config.max THEN config.max
    ELSE IF new_value < config.min THEN config.min
    ELSE new_value

\* round(new_value, 2): the nearest hundredth, a tie going to the even one
Round2(v) ==
    LET q == v \div 10
        r == v % 10
    IN  IF r > 5 \/ (r = 5 /\ q % 2 = 1) THEN (q + 1) * 10 ELSE q * 10

PublisherInit ==
    /\ heap = <<>>
    /\ report = NoReport
    /\ before = <<>>
    /\ ret = 0
    /\ data = 0
    /\ call = NoCall
    /\ outcome = "none"
    /\ pc = "start"

initialize_values ==
    /\ pc = "start"
    /\ heap' \in Draws(UniformRange)
    /\ pc' = "running"
    /\ UNCHANGED <<report, before, ret, data, call, outcome>>

\* one pass of the loop of main: generate_reading, then publish
generate_reading ==
    /\ pc = "running"
    /\ ret < MaxReadings
    /\ \E drift \in Draws(UniformDrift) :
          heap' = [param \in GenParams |->
                      Clamp(DEFAULT_PARAMS[param], heap[param] + drift[param])]
    /\ report' = [param \in GenParams |-> Round2(heap'[param])]
    /\ before' = heap
    /\ ret' = ret + 1
    /\ outcome' = "published"
    /\ UNCHANGED <<data, call, pc>>

PublisherNext == initialize_values \/ generate_reading

SpecPublisher == PublisherInit /\ [][PublisherNext]_vars

(***************************************************************************)
(* Properties of the publisher (SpecPublisher)                             *)
(***************************************************************************)
InRange(param, v) == DEFAULT_PARAMS[param].min <= v /\ v <= DEFAULT_PARAMS[param].max

Published == pc = "running" /\ ret >= 1

\* C30 (as stated): after initialize_values and any number of readings every
\* parameter's current value lies within its [min, max], each published
\* value is that clamped current value, and a reading changes a parameter by
\* at most its drift.
C30_PublishedIsCurrent ==
    pc = "running" =>
        /\ \A param \in GenParams : InRange(param, heap[param])
        /\ Published =>
              \A param \in GenParams :
                  /\ report[param] = heap[param]
                  /\ Abs(heap[param] - before[param]) <= DEFAULT_PARAMS[param].drift

\* C30 (amended): every parameter's current value lies within its
\* [min, max]; each published value is the clamped current value rounded to
\* two decimals: a multiple of 0.01 within 0.005 of the current value and
\* within [min, max]; and a reading changes the current value of a
\* parameter by at most its drift.
C30_PublishedRounded ==
    pc = "running" =>
        /\ \A param \in GenParams : InRange(param, heap[param])
        /\ Published =>
              \A param \in GenParams :
                  /\ report[param] % 10 = 0
                  /\ Abs(report[param] - heap[param]) <= 5
                  /\ InRange(param, report[param])
                  /\ Abs(heap[param] - before[param]) <= DEFAULT_PARAMS[param].drift

\* a reading in which the clamp held a parameter at a limit (its change is
\* none of the drifts drawn) and the published pH is not the current value
C30_Witness ==
    /\ Published
    /\ \E param \in GenParams :
          /\ heap[param] \in {DEFAULT_PARAMS[param].min, DEFAULT_PARAMS[param].max}
          /\ (heap[param] - before[param]) \notin UniformDrift(DEFAULT_PARAMS[param])
    /\ report["ph"] # heap["ph"]

====
